---- MODULE Spec2Model ----
(***************************************************************************)
(* Decision funnel of the weather/prediction-market agent.                 *)
(*                                                                         *)
(*   Trader.one_best_trade          src/agents/application/trade.py        *)
(*   Executor (chunker, key retention, budget-aware call, stage B, stage   *)
(*   F)                             src/agents/application/executor.py     *)
(*   GammaMarketClient.get_market   src/agents/polymarket/gamma.py         *)
(*                                                                         *)
(* Text is modelled as a sequence of tokens (a character or a lexeme);     *)
(* decimal numbers are carried as hundredths.                              *)
(***************************************************************************)
EXTENDS Integers, Sequences, FiniteSets, TLC

VARIABLES
    \* ---- Trader.one_best_trade: position, frame locals, observations ----
    pc,               \* stage the innermost one_best_trade frame is about to run
    starts,           \* how many times the try block was entered (saturates)
    bound_at,         \* local name -> traversal that bound it (0: unbound)
    events,           \* local `events`
    filtered_events,  \* local `filtered_events`: <<document, score>> pairs
    markets,          \* local `markets`
    filtered_markets, \* local `filtered_markets`: <<document, score>> pairs
    best_trade,       \* local `best_trade`: text returned by the gateway
    amount,           \* local `amount`, in hundredths
    gateway_calls,    \* llm.invoke calls issued in the current traversal
    extract_runs,     \* completed format_trade_prompt_for_execution calls
    done_runs,        \* times the end of the try block was reached
    first_raise,      \* stage of the first raise of the run ("" if none)
    raises,           \* how many times a stage raised (saturates)
    trace,            \* stages completed in the current traversal
    catalogue,        \* the events the catalogue source holds
    \* ---- Executor.map_filtered_events_to_markets ----
    map_input, map_bad, map_raised, map_markets, map_pc,
    \* ---- Executor.divide_list ----
    original_list, other_list, group_count, chunks, other_chunks, chunk_pc,
    chunk_raised,
    \* ---- retain_keys ----
    rk_data, keys_to_retain, rk_result, rk_pc,
    rk_again,         \* retain_keys applied to its own result
    \* ---- Executor.get_polymarket_llm ----
    token_limit,      \* self.token_limit
    data1, data2,     \* what gamma returns for the current events and markets
    llm_pc,           \* position inside get_polymarket_llm
    llm_path,         \* branch taken: "single", "chunked" or "" before it
    group_size,       \* local `group_size` (0 while it is unbound)
    llm_calls,        \* arguments of the process_data_chunk calls, in order
    llm_pending,      \* chunk pairs still to be processed
    llm_results,      \* `results`
    llm_return,       \* the returned text
    \* ---- Executor.format_trade_prompt_for_execution ----
    exec_decision,    \* what the gateway wrote: fields, their order, spacing
    exec_text,        \* `best_trade`, the text of that decision
    exec_balance,     \* what polymarket.get_usdc_balance() returns
    exec_raised,      \* the exception raised ("" when the call returns)
    exec_amount,      \* the returned value, in hundredths
    exec_pc,
    \* ---- GammaMarketClient.get_all_current_markets ----
    pg_catalogue,     \* the markets the endpoint serves, in its order
    pg_limit,         \* parameter `limit`
    offset,           \* local `offset`
    all_markets,      \* local `all_markets`
    pg_requests,      \* the offsets of the get_markets requests, in order
    pg_pc,
    \* ---- WeatherPredictor.get_best_forecast ----
    question,         \* parameter `question` ("" when none is asked)
    fc_pc,            \* statement the innermost frame is about to run
    fc_attempts,      \* how many times the try block was entered (saturates)
    fc_failed,        \* how many times the except clause ran (saturates)
    fc_raised_at,     \* the statements that raised into the except clause
    fc_sources,       \* what the two sources answered in this attempt
    fc_queried,       \* the sources get_all_forecasts queried, in order
    all_forecasts,    \* local `all_forecasts`
    current_weather,  \* local `current_weather` (0 while it is unbound)
    forecast,         \* the returned forecast (<<>> before the return)
    \* ---- server.py: the lazy singletons and the requests in flight ----
    sv_singleton,     \* kind -> the module-level instance (0: None)
    sv_constructed,   \* kind -> how many instances were constructed
    sv_kind,          \* request -> the singleton its endpoint uses
    sv_pc,            \* request -> position of its handler thread
    sv_local,         \* request -> the instance it built or was handed
    sv_init_failed,   \* request -> its construction raised
    sv_status,        \* request -> HTTP status of its response (0: none yet)
    \* ---- weather_rag.py: the persisted forecast index ----
    ix_dirs,          \* the local database directories that exist
    ix_file,          \* contents of local_db_weather_forecasts/forecasts.json
    ix_collection,    \* documents of the persisted collection, in insert order
    ix_forecasts,     \* the forecasts handed to weather_forecasts
    ix_prompt,        \* the prompt handed to weather_forecasts
    ix_results        \* what each call of weather_forecasts returned

tradeVars == <<pc, starts, bound_at, events, filtered_events, markets,
               filtered_markets, best_trade, amount, gateway_calls,
               extract_runs, done_runs, first_raise, raises, trace,
               catalogue>>
mapVars == <<map_input, map_bad, map_raised, map_markets, map_pc>>
chunkVars == <<original_list, other_list, group_count, chunks, other_chunks,
               chunk_pc, chunk_raised>>
keyVars == <<rk_data, keys_to_retain, rk_result, rk_pc, rk_again>>
llmVars == <<token_limit, data1, data2, llm_pc, llm_path, group_size,
             llm_calls, llm_pending, llm_results, llm_return>>
execVars == <<exec_decision, exec_text, exec_balance, exec_raised, exec_amount,
              exec_pc>>
funnelVars == <<tradeVars, mapVars, chunkVars, keyVars, llmVars, execVars>>
pageVars == <<pg_catalogue, pg_limit, offset, all_markets, pg_requests, pg_pc>>
forecastVars == <<question, fc_pc, fc_attempts, fc_failed, fc_raised_at,
                 fc_sources, fc_queried, all_forecasts, current_weather,
                 forecast>>
serverVars == <<sv_singleton, sv_constructed, sv_kind, sv_pc, sv_local,
               sv_init_failed, sv_status>>
indexVars == <<ix_dirs, ix_file, ix_collection, ix_forecasts, ix_prompt,
              ix_results>>
weatherVars == <<pageVars, forecastVars, serverVars, indexVars>>
vars == <<funnelVars, weatherVars>>

(***************************************************************************)
(* Bounds of the model.                                                    *)
(***************************************************************************)
MaxAttempts == 3
MaxListLen == 4
MaxItem == 2
MaxGroupCount == 4
NegGroupCounts == 2
MaxScalar == 3
MaxData == 2
MaxMarkets == 8
MaxLimit == 4
MaxTries == 3
MaxReading == 2
MaxRequests == 2
MaxForecasts == 2
MaxCalls == 3

(***************************************************************************)
(* Generic helpers.                                                        *)
(***************************************************************************)
Min(a, b) == IF a < b THEN a ELSE b

Range(s) == {s[k] : k \in 1..Len(s)}

\* Python: math.ceil(a / b) for b > 0 and a >= 0.
CeilDiv(a, b) == (a + b - 1) \div b

\* Python: s.split(sep) on a token sequence.
RECURSIVE Split(_, _)
Split(s, sep) ==
    IF \A k \in 1..Len(s) : s[k] # sep
    THEN <<s>>
    ELSE LET p == CHOOSE k \in 1..Len(s) :
                      s[k] = sep /\ \A j \in 1..(k - 1) : s[j] # sep
         IN <<SubSeq(s, 1, p - 1)>> \o Split(SubSeq(s, p + 1, Len(s)), sep)

RECURSIVE Concat(_)
Concat(ss) == IF ss = <<>> THEN <<>> ELSE Head(ss) \o Concat(Tail(ss))

(***************************************************************************)
(* Executor.divide_list                                                    *)
(***************************************************************************)
\* Python: lst[a:b] for 0 <= a and a <= b (the stop is clamped to len(lst)).
PySlice(lst, a, b) == SubSeq(lst, a + 1, Min(b, Len(lst)))

\* Variant: the sublist size is rounded down.
SublistSizeFloor(lst, i) ==
    IF i > 0 THEN Len(lst) \div i ELSE 0 - (Len(lst) \div (0 - i))

\* sublist_size = math.ceil(len(original_list) / i), i # 0.  For a negative
\* i the quotient is <= 0 and its ceiling is -(len // -i).
SublistSize(lst, i) ==
    IF i > 0 THEN CeilDiv(Len(lst), i) ELSE 0 - (Len(lst) \div (0 - i))

\* Variant: the slice stops one element early.
ChunkAtShort(lst, j, size) == PySlice(lst, j, j + size - 1)

\* original_list[j:j+sublist_size]
ChunkAt(lst, j, size) == PySlice(lst, j, j + size)

\* The outcome of divide_list(original_list, i): the exception it raises (""
\* when it returns) and the list of sublists.  i = 0 divides by zero; a
\* sublist size of 0 makes range(0, len, 0) raise ValueError; a negative
\* size gives an empty range.
divide_list(lst, i) ==
    IF i = 0 THEN [raised |-> "ZeroDivisionError", chunks |-> <<>>]
    ELSE LET size == SublistSize(lst, i)
         IN IF size = 0 THEN [raised |-> "ValueError", chunks |-> <<>>]
            ELSE IF size < 0 THEN [raised |-> "", chunks |-> <<>>]
            ELSE [raised |-> "",
                  chunks |-> [k \in 1..CeilDiv(Len(lst), size) |->
                                 ChunkAt(lst, (k - 1) * size, size)]]

(***************************************************************************)
(* retain_keys.  A nested value is tagged: a scalar, a string known by its *)
(* length, a dict (a function on its keys) or a list (a sequence).         *)
(***************************************************************************)
Scalar(n) == [t |-> "int", v |-> n]
Str(n) == [t |-> "str", v |-> n]
Dict(f) == [t |-> "dict", v |-> f]
List(s) == [t |-> "list", v |-> s]

\* Variant: a key that is not allow-listed is kept when its value is a
\* container, and the recursion goes into it.
RECURSIVE retain_keys_descend(_, _)
retain_keys_descend(data, keys) ==
    IF data.t = "dict"
    THEN Dict([key \in {k \in DOMAIN data.v :
                          k \in keys \/ data.v[k].t \in {"dict", "list"}} |->
                  retain_keys_descend(data.v[key], keys)])
    ELSE IF data.t = "list"
    THEN List([k \in 1..Len(data.v) |-> retain_keys_descend(data.v[k], keys)])
    ELSE data

\* Variant: a list is returned as it is.
RECURSIVE retain_keys_skip_lists(_, _)
retain_keys_skip_lists(data, keys) ==
    IF data.t = "dict"
    THEN Dict([key \in (DOMAIN data.v) \cap keys |->
                  retain_keys_skip_lists(data.v[key], keys)])
    ELSE data

\* Variant: a list loses its first element.
RECURSIVE retain_keys_drop_head(_, _)
retain_keys_drop_head(data, keys) ==
    IF data.t = "dict"
    THEN Dict([key \in (DOMAIN data.v) \cap keys |->
                  retain_keys_drop_head(data.v[key], keys)])
    ELSE IF data.t = "list"
    THEN List([k \in 1..(Len(data.v) - 1) |->
                  retain_keys_drop_head(data.v[k + 1], keys)])
    ELSE data

\* retain_keys(data, keys_to_retain)
RECURSIVE retain_keys(_, _)
retain_keys(data, keys) ==
    IF data.t = "dict"
    THEN Dict([key \in (DOMAIN data.v) \cap keys |->
                  retain_keys(data.v[key], keys)])
    ELSE IF data.t = "list"
    THEN List([k \in 1..Len(data.v) |-> retain_keys(data.v[k], keys)])
    ELSE data

(***************************************************************************)
(* Inputs of the pure functions.                                           *)
(***************************************************************************)
Items == 1..MaxItem
Lists == UNION {[1..n -> Items] : n \in 0..MaxListLen}
GroupCounts == (0 - NegGroupCounts)..MaxGroupCount

LeafValues == {Scalar(n) : n \in 1..MaxScalar}
InnerValues ==
    LeafValues
    \cup {Dict(f) : f \in UNION {[K -> LeafValues] : K \in SUBSET {"a", "c"}}}
    \cup {List(s) : s \in UNION {[1..n -> LeafValues] : n \in 0..1}}
NestedValues ==
    InnerValues
    \cup {Dict(f) : f \in UNION {[K -> InnerValues] : K \in SUBSET {"a", "b"}}}
    \cup {List(s) : s \in UNION {[1..n -> InnerValues] : n \in 0..2}}
KeySets == SUBSET {"a", "b", "c"}

\* {"a": 1, "b": {"a": 2, "c": 3}}
ExampleValue ==
    Dict("a" :> Scalar(1) @@
         "b" :> Dict("a" :> Scalar(2) @@ "c" :> Scalar(3)))

(***************************************************************************)
(* Parked values: the state of a component no operation of which runs.     *)
(***************************************************************************)
ParkChunk ==
    /\ original_list = <<>> /\ other_list = <<>> /\ group_count = 1
    /\ chunks = <<>> /\ other_chunks = <<>>
    /\ chunk_pc = "parked" /\ chunk_raised = <<"", "">>

ParkKeys ==
    /\ rk_data = Scalar(1) /\ keys_to_retain = {} /\ rk_result = Scalar(1)
    /\ rk_pc = "parked" /\ rk_again = Scalar(1)

ParkLlm ==
    /\ token_limit = 0 /\ data1 = <<>> /\ data2 = <<>> /\ llm_pc = "parked"
    /\ llm_path = "" /\ group_size = 0
    /\ llm_calls = <<>> /\ llm_pending = <<>> /\ llm_results = <<>>
    /\ llm_return = <<>>

ParkTrade ==
    /\ pc = "parked" /\ starts = 0 /\ bound_at = <<>>
    /\ events = <<>> /\ filtered_events = <<>> /\ markets = <<>>
    /\ filtered_markets = <<>> /\ best_trade = <<>> /\ amount = 0
    /\ gateway_calls = 0 /\ extract_runs = 0
    /\ done_runs = 0 /\ first_raise = "" /\ raises = 0 /\ trace = <<>>
    /\ catalogue = {}

ParkMap ==
    /\ map_input = <<>> /\ map_bad = {} /\ map_raised = ""
    /\ map_markets = <<>> /\ map_pc = "parked"

ParkExec ==
    /\ exec_decision = <<>> /\ exec_text = <<>> /\ exec_balance = 0
    /\ exec_raised = "" /\ exec_amount = 0 /\ exec_pc = "parked"

ParkPage ==
    /\ pg_catalogue = <<>> /\ pg_limit = 1 /\ offset = 0
    /\ all_markets = <<>> /\ pg_requests = <<>> /\ pg_pc = "parked"

ParkFunnel ==
    ParkTrade /\ ParkMap /\ ParkChunk /\ ParkKeys /\ ParkLlm /\ ParkExec

ParkForecast ==
    /\ question = "" /\ fc_pc = "parked" /\ fc_attempts = 0 /\ fc_failed = 0
    /\ fc_raised_at = {} /\ fc_sources = <<>> /\ fc_queried = <<>>
    /\ all_forecasts = <<>> /\ current_weather = 0 /\ forecast = <<>>

ParkServer ==
    /\ sv_singleton = <<>> /\ sv_constructed = <<>> /\ sv_kind = <<>>
    /\ sv_pc = <<>> /\ sv_local = <<>> /\ sv_init_failed = <<>>
    /\ sv_status = <<>>

ParkIndex ==
    /\ ix_dirs = {} /\ ix_file = <<>> /\ ix_collection = <<>>
    /\ ix_forecasts = <<>> /\ ix_prompt = 0 /\ ix_results = <<>>

ParkWeather == ParkPage /\ ParkForecast /\ ParkServer /\ ParkIndex

(***************************************************************************)
(* The chunker applied to two lists with one group count, as               *)
(* get_polymarket_llm applies it to data1 and data2.                       *)
(***************************************************************************)
InitChunk ==
    /\ original_list \in Lists /\ other_list \in Lists
    /\ group_count \in GroupCounts
    /\ chunks = <<>> /\ other_chunks = <<>>
    /\ chunk_pc = "call" /\ chunk_raised = <<"", "">>
    /\ ParkKeys /\ ParkLlm /\ ParkTrade /\ ParkMap /\ ParkExec /\ ParkWeather

DivideList ==
    /\ chunk_pc = "call"
    /\ LET r1 == divide_list(original_list, group_count)
           r2 == divide_list(other_list, group_count)
       IN /\ chunks' = r1.chunks
          /\ other_chunks' = r2.chunks
          /\ chunk_raised' = <<r1.raised, r2.raised>>
    /\ chunk_pc' = "done"
    /\ UNCHANGED <<original_list, other_list, group_count>>
    /\ UNCHANGED <<keyVars, llmVars, tradeVars, mapVars, execVars, weatherVars>>

NextChunk == DivideList

ChunkSpec == InitChunk /\ [][NextChunk]_vars

(***************************************************************************)
(* retain_keys applied to a nested value.                                  *)
(***************************************************************************)
InitKeys ==
    /\ rk_data \in NestedValues /\ keys_to_retain \in KeySets
    /\ rk_result = Scalar(1) /\ rk_pc = "call" /\ rk_again = Scalar(1)
    /\ ParkChunk /\ ParkLlm /\ ParkTrade /\ ParkMap /\ ParkExec /\ ParkWeather

RetainKeys ==
    /\ rk_pc = "call"
    /\ rk_result' = retain_keys(rk_data, keys_to_retain)
    /\ rk_pc' = "returned"
    /\ UNCHANGED <<rk_data, keys_to_retain, rk_again>>
    /\ UNCHANGED <<chunkVars, llmVars, tradeVars, mapVars, execVars, weatherVars>>

\* retain_keys(result, keys_to_retain): the function applied to what it
\* returned.
RetainKeysAgain ==
    /\ rk_pc = "returned"
    /\ rk_again' = retain_keys(rk_result, keys_to_retain)
    /\ rk_pc' = "again"
    /\ UNCHANGED <<rk_data, keys_to_retain, rk_result>>
    /\ UNCHANGED <<chunkVars, llmVars, tradeVars, mapVars, execVars, weatherVars>>

NextKeys == RetainKeys \/ RetainKeysAgain

KeySpec == InitKeys /\ [][NextKeys]_vars

(***************************************************************************)
(* Trader.one_best_trade: the catalogue and the collaborators' answers.    *)
(***************************************************************************)
\* Two events; `markets` is the comma-separated id list of the metadata.
EventCatalogue ==
    {[id |-> 1, markets |-> <<"1", ",", "2">>], [id |-> 2, markets |-> <<"3">>]}
MarketIds == {<<"1">>, <<"2">>, <<"3">>, <<"4">>}
Locals == {"events", "filtered_events", "markets", "filtered_markets",
           "best_trade", "amount"}
Balances == {100, 200}

\* Sequences of distinct members of a set, the empty one included.
DistinctSeqs(S) ==
    {q \in UNION {[1..n -> S] : n \in 0..Cardinality(S)} :
        \A a, b \in 1..Len(q) : a # b => q[a] # q[b]}

\* What a similarity search over `docs` may return: <<document, score>> pairs
\* of distinct documents, in the store's order (the score is the rank).
SearchResults(docs) ==
    {[k \in 1..Len(q) |-> <<q[k], k>>] : q \in DistinctSeqs(Range(docs))}

\* Texts the gateway may return for the trade prompt.
TradeTexts ==
    { <<"price:", "0.62", ",", "\n", "size:", "0.15", ",", "\n",
        "side:", "BUY", ",">>,
      <<"price:", "0.62", ",", "side:", "BUY">>,
      <<"size:", "0.15">> }
DecimalTokens == {"0.62", "0.15"}
Hundredths(tok) == IF tok = "0.62" THEN 62 ELSE IF tok = "0.15" THEN 15 ELSE 0

\* re.findall("\d+\.\d+", text): the decimal numbers of a text, in order.
RECURSIVE FindDecimals(_)
FindDecimals(text) ==
    IF text = <<>> THEN <<>>
    ELSE (IF Head(text) \in DecimalTokens THEN <<Head(text)>> ELSE <<>>)
             \o FindDecimals(Tail(text))

\* Variant: the size is read from the first comma-separated part.
format_trade_prompt_first_part(text, usdc_balance) ==
    LET data == Split(text, ",")
        found == FindDecimals(data[1])
    IN IF found = <<>> THEN [raised |-> "IndexError", value |-> 0]
       ELSE [raised |-> "", value |-> Hundredths(found[1]) * usdc_balance]

\* format_trade_prompt_for_execution(best_trade) with the balance that
\* get_usdc_balance returns: data[1] or findall(...)[0] may raise IndexError.
format_trade_prompt_for_execution(text, usdc_balance) ==
    LET data == Split(text, ",")
    IN IF Len(data) < 2 THEN [raised |-> "IndexError", value |-> 0]
       ELSE LET found == FindDecimals(data[2])
            IN IF found = <<>> THEN [raised |-> "IndexError", value |-> 0]
               ELSE [raised |-> "",
                     value |-> Hundredths(found[1]) * usdc_balance]

\* The market ids of the filtered events, in the order the two loops of
\* map_filtered_events_to_markets visit them.
RECURSIVE RequestedIds(_)
RequestedIds(filtered) ==
    IF filtered = <<>> THEN <<>>
    ELSE Split(Head(filtered)[1].markets, ",") \o RequestedIds(Tail(filtered))

\* map_filtered_events_to_markets(filtered_events) when the lookups of the
\* ids in `bad` raise: nothing catches the exception of get_market or of
\* map_api_to_market, so the first bad id ends the call.
map_filtered_events_to_markets(filtered, bad) ==
    LET ids == RequestedIds(filtered)
    IN IF \E k \in 1..Len(ids) : ids[k] \in bad
       THEN [raised |-> "HTTPStatusError", markets |-> <<>>]
       ELSE [raised |-> "", markets |-> [k \in 1..Len(ids) |-> [id |-> ids[k]]]]

\* The markets Stage B would return if a failed lookup were skipped.
ResolvedSkipping(filtered, bad) ==
    LET ids == SelectSeq(RequestedIds(filtered), LAMBDA x : x \notin bad)
    IN [k \in 1..Len(ids) |-> [id |-> ids[k]]]

(***************************************************************************)
(* Trader.one_best_trade: the stages.                                      *)
(***************************************************************************)
StageOrder ==
    <<"START", "RETRIEVE_FILTER", "MAP", "SECOND_FILTER", "SCORE", "EXTRACT">>

\* Variant: the mapping statement is passed over.
NextStageSkipping(stage) ==
    IF stage = "START" THEN "RETRIEVE_FILTER"
    ELSE IF stage = "RETRIEVE_FILTER" THEN "SECOND_FILTER"
    ELSE IF stage = "MAP" THEN "SECOND_FILTER"
    ELSE IF stage = "SCORE" THEN "EXTRACT"
    ELSE "DONE"

\* The statements of the try block run in textual order.
NextStage(stage) ==
    IF stage = "START" THEN "RETRIEVE_FILTER"
    ELSE IF stage = "RETRIEVE_FILTER" THEN "MAP"
    ELSE IF stage = "MAP" THEN "SECOND_FILTER"
    ELSE IF stage = "SCORE" THEN "EXTRACT"
    ELSE "DONE"

\* Variant: no empty check.
AfterSecondFilterNoCheck(candidates) == "SCORE"

\* `if not filtered_markets: return`
AfterSecondFilter(candidates) == IF candidates = <<>> THEN "END" ELSE "SCORE"

\* Variants: the handler resumes at the stage that raised; the handler gives
\* up.
RetryResume(stage) == stage

RetryGiveUp(stage) == "FAILED"

\* The except clause: `self.one_best_trade()` runs the whole body again.
RetryTarget(stage) == "START"

\* Variant: the retry keeps the locals of the frame that raised.
KeepFrame ==
    UNCHANGED <<bound_at, events, filtered_events, markets, filtered_markets,
                best_trade, amount, gateway_calls, trace>>

\* The locals of a new frame of one_best_trade.
FreshFrame ==
    /\ bound_at' = [l \in Locals |-> 0]
    /\ events' = <<>> /\ filtered_events' = <<>> /\ markets' = <<>>
    /\ filtered_markets' = <<>> /\ best_trade' = <<>> /\ amount' = 0
    /\ gateway_calls' = 0 /\ trace' = <<>>

TradeIdle ==
    /\ pc = "IDLE" /\ starts = 0
    /\ bound_at = [l \in Locals |-> 0]
    /\ events = <<>> /\ filtered_events = <<>> /\ markets = <<>>
    /\ filtered_markets = <<>> /\ best_trade = <<>> /\ amount = 0
    /\ gateway_calls = 0 /\ extract_runs = 0
    /\ done_runs = 0 /\ first_raise = "" /\ raises = 0 /\ trace = <<>>

Parked == ParkMap /\ ParkChunk /\ ParkKeys /\ ParkLlm /\ ParkExec /\ ParkWeather

Init == TradeIdle /\ catalogue = EventCatalogue /\ Parked

\* The same run against a catalogue that holds one event.
InitOneEvent ==
    /\ TradeIdle /\ Parked
    /\ \E e \in EventCatalogue : Len(e.markets) > 1 /\ catalogue = {e}

\* t.one_best_trade()
OneBestTrade ==
    /\ pc = "IDLE"
    /\ pc' = "START" /\ starts' = 1
    /\ UNCHANGED <<bound_at, events, filtered_events, markets,
                   filtered_markets, best_trade, amount, gateway_calls,
                   extract_runs, done_runs, first_raise, raises, trace,
                   catalogue>>
    /\ UNCHANGED <<mapVars, chunkVars, keyVars, llmVars, execVars, weatherVars>>

\* A stage raised: the handler logs and calls one_best_trade again.
Raise(stage) ==
    /\ pc' = RetryTarget(stage)
    /\ starts' = IF RetryTarget(stage) = "START"
                 THEN Min(starts + 1, MaxAttempts) ELSE starts
    /\ raises' = Min(raises + 1, MaxAttempts - 1)
    /\ first_raise' = IF first_raise = "" THEN stage ELSE first_raise
    /\ FreshFrame
    /\ UNCHANGED <<extract_runs, done_runs, catalogue>>
    /\ UNCHANGED <<mapVars, chunkVars, keyVars, llmVars, execVars, weatherVars>>

\* A stage returned: bind its local and go on.
Bind(stage, name) ==
    /\ bound_at' = [bound_at EXCEPT ![name] = starts]
    /\ trace' = Append(trace, stage)
    /\ UNCHANGED <<starts, first_raise, raises, catalogue>>
    /\ UNCHANGED <<mapVars, chunkVars, keyVars, llmVars, execVars, weatherVars>>

\* pre_trade_logic(); events = polymarket.get_all_tradeable_events().
\* clear_local_dbs only logs the OSError of a failed rmtree.
Start ==
    /\ pc = "START"
    /\ \/ /\ \E got \in DistinctSeqs(catalogue) : events' = got
          /\ pc' = NextStage("START")
          /\ Bind("START", "events")
          /\ UNCHANGED <<filtered_events, markets, filtered_markets,
                         best_trade, amount, gateway_calls, extract_runs,
                         done_runs>>
       \/ Raise("START")

\* filtered_events = agent.filter_events_with_rag(events)
RetrieveFilter ==
    /\ pc = "RETRIEVE_FILTER"
    /\ \/ /\ \E got \in SearchResults(events) : filtered_events' = got
          /\ pc' = NextStage("RETRIEVE_FILTER")
          /\ Bind("RETRIEVE_FILTER", "filtered_events")
          /\ UNCHANGED <<events, markets, filtered_markets, best_trade,
                         amount, gateway_calls, extract_runs, done_runs>>
       \/ Raise("RETRIEVE_FILTER")

\* markets = agent.map_filtered_events_to_markets(filtered_events)
Map ==
    /\ pc = "MAP"
    /\ \E bad \in SUBSET MarketIds :
        LET r == map_filtered_events_to_markets(filtered_events, bad)
        IN IF r.raised = ""
           THEN /\ markets' = r.markets
                /\ pc' = NextStage("MAP")
                /\ Bind("MAP", "markets")
                /\ UNCHANGED <<events, filtered_events, filtered_markets,
                               best_trade, amount, gateway_calls,
                               extract_runs, done_runs>>
           ELSE Raise("MAP")

\* filtered_markets = agent.filter_markets(markets), then the empty check.
SecondFilter ==
    /\ pc = "SECOND_FILTER"
    /\ \/ /\ \E got \in SearchResults(markets) :
                /\ filtered_markets' = got
                /\ pc' = AfterSecondFilter(got)
          /\ Bind("SECOND_FILTER", "filtered_markets")
          /\ UNCHANGED <<events, filtered_events, markets, best_trade,
                         amount, gateway_calls, extract_runs, done_runs>>
       \/ Raise("SECOND_FILTER")

\* market = filtered_markets[0]; best_trade = agent.source_best_trade(market):
\* two gateway calls, the second one returning the trade text.
Score ==
    /\ pc = "SCORE"
    /\ \/ /\ filtered_markets # <<>>
          /\ \E text \in TradeTexts : best_trade' = text
          /\ gateway_calls' = gateway_calls + 2
          /\ pc' = NextStage("SCORE")
          /\ Bind("SCORE", "best_trade")
          /\ UNCHANGED <<events, filtered_events, markets, filtered_markets,
                         amount, extract_runs, done_runs>>
       \/ Raise("SCORE")

\* amount = agent.format_trade_prompt_for_execution(best_trade); the order
\* itself is commented out, so the body ends here.
Extract ==
    /\ pc = "EXTRACT"
    /\ \/ \E usdc_balance \in Balances :
            LET r == format_trade_prompt_for_execution(best_trade, usdc_balance)
            IN IF r.raised = ""
               THEN /\ amount' = r.value
                    /\ extract_runs' = extract_runs + 1
                    /\ done_runs' = done_runs + 1
                    /\ pc' = NextStage("EXTRACT")
                    /\ Bind("EXTRACT", "amount")
                    /\ UNCHANGED <<events, filtered_events, markets,
                                   filtered_markets, best_trade,
                                   gateway_calls>>
               ELSE Raise("EXTRACT")
       \/ Raise("EXTRACT")

Next ==
    \/ OneBestTrade
    \/ Start
    \/ RetrieveFilter
    \/ Map
    \/ SecondFilter
    \/ Score
    \/ Extract

Spec == Init /\ [][Next]_vars

\* Every call into a collaborator returns or raises, so a stage that can run
\* does run.
FairSpec == InitOneEvent /\ [][Next]_vars /\ WF_vars(Next)

(***************************************************************************)
(* Stage B alone: map_filtered_events_to_markets applied to a retrieval    *)
(* result while the lookups of the ids in map_bad fail.                    *)
(***************************************************************************)
InitMap ==
    /\ map_input \in UNION {SearchResults(ev) : ev \in DistinctSeqs(EventCatalogue)}
    /\ map_bad \in SUBSET MarketIds
    /\ map_raised = "" /\ map_markets = <<>> /\ map_pc = "call"
    /\ ParkTrade /\ ParkChunk /\ ParkKeys /\ ParkLlm /\ ParkExec /\ ParkWeather

MapFilteredEventsToMarkets ==
    /\ map_pc = "call"
    /\ LET r == map_filtered_events_to_markets(map_input, map_bad)
       IN /\ map_raised' = r.raised
          /\ map_markets' = r.markets
    /\ map_pc' = "done"
    /\ UNCHANGED <<map_input, map_bad>>
    /\ UNCHANGED <<tradeVars, chunkVars, keyVars, llmVars, execVars, weatherVars>>

NextMap == MapFilteredEventsToMarkets

MapSpec == InitMap /\ [][NextMap]_vars

\* C4 as stated: Stage B is not fail-fast.  When the lookup of a child market
\* fails, map_filtered_events_to_markets does not raise: it returns the
\* requested markets whose lookup succeeded, in order.
StageBSkipsFailedLookups ==
    map_pc = "done"
        => /\ map_raised = ""
           /\ map_markets = ResolvedSkipping(map_input, map_bad)

(***************************************************************************)
(* Stage F alone: format_trade_prompt_for_execution applied to the text of *)
(* a decision.  A decision has some of the labeled fields price, size and  *)
(* side, in some order, separated by commas; a number is written with a    *)
(* decimal point ("0.62", "0.15") or without one ("1").                    *)
(***************************************************************************)
FieldNames == {"price", "size", "side"}
StandardOrder == <<"price", "size", "side">>
PriceTokens == {"0.62", "1"}
SizeTokens == {"0.15", "0.62", "1"}
Whitespace == {<<>>, <<" ">>, <<"\n">>}

Decisions ==
    [order : DistinctSeqs(FieldNames), price : PriceTokens, size : SizeTokens,
     lead : Whitespace, gap : {<<>>, <<" ">>}, indent : BOOLEAN,
     trail : BOOLEAN]

\* One field as written: the label, optional whitespace, the value.
FieldText(d, f) ==
    IF f = "price" THEN <<"price:">> \o d.gap \o <<d.price>>
    ELSE IF f = "size" THEN <<"size:">> \o d.gap \o <<d.size>>
    ELSE <<"side:">> \o d.gap \o <<"BUY">>

\* The fields from the k-th on, a comma and whitespace before each.
RECURSIVE FieldsFrom(_, _)
FieldsFrom(d, k) ==
    IF k > Len(d.order) THEN <<>>
    ELSE <<",">> \o d.lead \o FieldText(d, d.order[k]) \o FieldsFrom(d, k + 1)

\* The text the gateway returns for a decision.
DecisionText(d) ==
    IF d.order = <<>> THEN <<>>
    ELSE (IF d.indent THEN d.lead ELSE <<>>)
             \o FieldText(d, d.order[1]) \o FieldsFrom(d, 2)
             \o (IF d.trail THEN <<",">> ELSE <<>>)

InitExec ==
    /\ exec_decision \in Decisions
    /\ exec_text = DecisionText(exec_decision)
    /\ exec_balance \in Balances
    /\ exec_raised = "" /\ exec_amount = 0 /\ exec_pc = "call"
    /\ ParkTrade /\ ParkMap /\ ParkChunk /\ ParkKeys /\ ParkLlm /\ ParkWeather

FormatTradePromptForExecution ==
    /\ exec_pc = "call"
    /\ LET r == format_trade_prompt_for_execution(exec_text, exec_balance)
       IN /\ exec_raised' = r.raised
          /\ exec_amount' = r.value
    /\ exec_pc' = "done"
    /\ UNCHANGED <<exec_decision, exec_text, exec_balance>>
    /\ UNCHANGED <<tradeVars, mapVars, chunkVars, keyVars, llmVars, weatherVars>>

NextExec == FormatTradePromptForExecution

ExecSpec == InitExec /\ [][NextExec]_vars

ExtractionAnyOrder ==
    (exec_pc = "done" /\ Len(exec_decision.order) = 3
     /\ exec_decision.size \in DecimalTokens)
        => /\ exec_raised = ""
           /\ exec_amount = Hundredths(exec_decision.size) * exec_balance

\* C20 as stated: when one of the three fields is absent from the text the
\* call raises and returns no amount.
ExtractionFailsLoudly ==
    (exec_pc = "done" /\ Len(exec_decision.order) < 3)
        => (exec_raised # "" /\ exec_amount = 0)

(***************************************************************************)
(* Claims about Trader.one_best_trade.                                     *)
(***************************************************************************)
Terminal == {"DONE", "END"}
Bound(name) == bound_at[name] # 0
PrefixOfOrder(n) == SubSeq(StageOrder, 1, n)

\* C5: once the secondary filter has returned no candidate, the traversal is
\* in END, has issued no gateway call, has bound neither a trade text nor an
\* amount, and nothing runs any more (no retry).
EmptyCandidateShortCircuit ==
    (Bound("filtered_markets") /\ filtered_markets = <<>>)
        => /\ pc = "END"
           /\ gateway_calls = 0
           /\ ~Bound("best_trade") /\ ~Bound("amount")
           /\ ~ENABLED Next

EmptyCandidateWitness ==
    /\ pc = "END" /\ markets # <<>> /\ filtered_markets = <<>>
    /\ Bound("filtered_markets") /\ gateway_calls = 0

\* C6: every raise is followed by a new traversal that begins at START with
\* no local bound; every local that is bound was bound by the traversal in
\* progress, and a traversal's completed stages begin with the first one.
WholeRunRetry ==
    raises >= 1
        => /\ starts = raises + 1
           /\ trace = <<>> => (pc = "START" /\ \A l \in Locals : ~Bound(l))
           /\ trace # <<>> => trace[1] = "START"
           /\ \A l \in Locals : bound_at[l] \in {0, starts}

WholeRunRetryWitness ==
    /\ first_raise = "EXTRACT" /\ raises = 1 /\ pc = "MAP" /\ starts = 2
    /\ bound_at["filtered_events"] = 2 /\ ~Bound("best_trade")

\* C7: when the only failure so far is one raise of the scoring stage of the
\* first traversal, START has been entered exactly twice, the second
\* traversal runs the stages in full, and a run that ends with a candidate
\* ends in DONE having reached the end of the body once and extracted once.
RetryConvergence ==
    (first_raise = "SCORE" /\ raises = 1)
        => /\ starts = 2
           /\ pc \in Range(StageOrder) \cup Terminal
           /\ pc \in Range(StageOrder)
                  => /\ trace = PrefixOfOrder(Len(trace))
                     /\ pc = StageOrder[Len(trace) + 1]
                     /\ done_runs = 0 /\ extract_runs = 0
           /\ (pc \in Terminal /\ filtered_markets # <<>>)
                  => /\ pc = "DONE" /\ trace = StageOrder
                     /\ done_runs = 1 /\ extract_runs = 1
           /\ (pc \in Terminal /\ filtered_markets = <<>>)
                  => (pc = "END" /\ done_runs = 0 /\ extract_runs = 0)

RetryConvergenceWitness ==
    /\ first_raise = "SCORE" /\ raises = 1 /\ pc = "DONE" /\ starts = 2
    /\ done_runs = 1 /\ extract_runs = 1

\* C8: within a traversal the completed stages are a prefix of START,
\* RETRIEVE_FILTER, MAP, SECOND_FILTER, SCORE, EXTRACT and the stage about to
\* run is the next one; SCORE and what follows it happen only with a
\* non-empty candidate set, END only with an empty one; each completed stage
\* has bound its result before the next one runs.
StageOrdering ==
    pc # "IDLE"
        => /\ trace = PrefixOfOrder(Len(trace))
           /\ pc \in Range(StageOrder) \cup Terminal
           /\ pc \in Range(StageOrder) => pc = StageOrder[Len(trace) + 1]
           /\ pc = "DONE" => trace = StageOrder
           /\ pc = "END" => (trace = PrefixOfOrder(4) /\ filtered_markets = <<>>)
           /\ Len(trace) > 4 \/ pc \in {"SCORE", "DONE"}
                  => filtered_markets # <<>>
           /\ Bound("events") <=> Len(trace) >= 1
           /\ Bound("filtered_events") <=> Len(trace) >= 2
           /\ Bound("markets") <=> Len(trace) >= 3
           /\ Bound("filtered_markets") <=> Len(trace) >= 4
           /\ Bound("best_trade") <=> Len(trace) >= 5
           /\ Bound("amount") <=> Len(trace) >= 6

StageOrderingWitness ==
    /\ pc = "DONE" /\ trace = StageOrder /\ first_raise = ""
    /\ filtered_markets # <<>> /\ amount = 3000

\* C9: the run has stopped exactly when it is in DONE or in END, and unless
\* stages keep raising forever it reaches one of the two.
RetryStep == pc # "IDLE" /\ pc' = "START"

Models == {"gpt-3.5-turbo-16k", "gpt-4-1106-preview", "gpt-4o-mini", "gpt-4o",
           "another-model"}
max_token_model(default_model) ==
    IF default_model = "gpt-3.5-turbo-16k" THEN 15000
    ELSE IF default_model = "gpt-4-1106-preview" THEN 95000
    ELSE 128000

\* len(str(prompts_polymarket(data1=[], data2=[]))) - len("[]") - len("[]"):
\* the fixed text of the prompt.
PromptTemplateLen == 467

useful_keys ==
    {"id", "questionID", "description", "liquidity", "clobTokenIds",
     "outcomes", "outcomePrices", "volume", "startDate", "endDate",
     "question", "events"}

RECURSIVE Digits(_)
Digits(n) == IF n < 10 THEN 1 ELSE 1 + Digits(n \div 10)

\* len(str(value)) for the Python repr of a nested value: "'k': v" entries
\* joined by ", " inside braces or brackets; a string adds its two quotes.
RECURSIVE ReprLen(_)
RECURSIVE DictEntriesLen(_, _)
RECURSIVE ListEntriesLen(_)
DictEntriesLen(f, ks) ==
    IF ks = {} THEN 0
    ELSE LET k == CHOOSE x \in ks : TRUE
         IN Len(k) + 2 + 2 + ReprLen(f[k]) + DictEntriesLen(f, ks \ {k})
ListEntriesLen(q) ==
    IF q = <<>> THEN 0 ELSE ReprLen(Head(q)) + ListEntriesLen(Tail(q))
ReprLen(value) ==
    IF value.t = "int" THEN Digits(value.v)
    ELSE IF value.t = "str" THEN value.v + 2
    ELSE IF value.t = "dict"
    THEN LET n == Cardinality(DOMAIN value.v)
         IN 2 + DictEntriesLen(value.v, DOMAIN value.v)
              + (IF n > 1 THEN 2 * (n - 1) ELSE 0)
    ELSE 2 + ListEntriesLen(value.v)
           + (IF Len(value.v) > 1 THEN 2 * (Len(value.v) - 1) ELSE 0)

\* len(combined_data)
PayloadLen(d1, d2) == PromptTemplateLen + ReprLen(List(d1)) + ReprLen(List(d2))

\* estimate_tokens(text) = len(text) // 4
estimate_tokens(text_len) == text_len \div 4

\* Variant: the boundary is exclusive.
WithinLimitStrict(total_tokens, limit) == total_tokens < limit

\* `if total_tokens <= token_limit`
WithinLimit(total_tokens, limit) == total_tokens <= limit

\* Variant: the group count is the quotient rounded up.
GroupSizeCeil(total_tokens, limit) == CeilDiv(total_tokens, limit)

\* group_size = (total_tokens // token_limit) + 1
GroupSize(total_tokens, limit) == (total_tokens \div limit) + 1

\* zip(cut_1, cut_2): pairs up to the shorter list.
Zip(c1, c2) ==
    [k \in 1..Min(Len(c1), Len(c2)) |-> [sub_data1 |-> c1[k], sub_data2 |-> c2[k]]]

\* Variant: the texts are joined with nothing between them.
RECURSIVE JoinNoSeparator(_)
JoinNoSeparator(texts) ==
    IF texts = <<>> THEN <<>> ELSE texts[1] \o JoinNoSeparator(Tail(texts))

\* " ".join(results)
RECURSIVE Join(_)
Join(texts) ==
    IF texts = <<>> THEN <<>>
    ELSE IF Len(texts) = 1 THEN texts[1]
    ELSE texts[1] \o <<" ">> \o Join(Tail(texts))

\* An event and a market of the catalogue; x is the length of the free text.
EventItem(x) ==
    Dict("id" :> Scalar(1) @@ "slug" :> Str(3) @@ "description" :> Str(x))
EventWithMarkets ==
    Dict("id" :> Scalar(2) @@
         "markets" :> List(<<Dict("id" :> Scalar(7) @@ "slug" :> Str(3))>>))
MarketItem(x) == Dict("id" :> Scalar(7) @@ "question" :> Str(x))
MarketWithEvents ==
    Dict("id" :> Scalar(8) @@ "slug" :> Str(3) @@
         "events" :> List(<<Dict("id" :> Scalar(1) @@ "ticker" :> Str(3))>>))

\* Text lengths that put the payload of one event just at, and just over, the
\* limit: the estimate is limit for 4 * limit .. 4 * limit + 3 characters.
BoundaryLens(limit) ==
    {4 * limit + d - PayloadLen(<<EventItem(0)>>, <<>>) : d \in {0, 3, 4}}
EventItems(limit) ==
    {EventWithMarkets, EventItem(3)} \cup {EventItem(x) : x \in BoundaryLens(limit)}
\* A question so long that the text of the market is 4 * limit characters:
\* with one event at the boundary the estimate is a multiple of the limit.
BudgetLen(limit) == 4 * limit - ReprLen(MarketItem(0))
MarketItems(limit) ==
    {MarketWithEvents, MarketItem(3), MarketItem(BudgetLen(limit))}
Replies == {<<"r1">>, <<"r2">>}

InitLlm ==
    /\ \E m \in Models : token_limit = max_token_model(m)
    /\ data1 \in UNION {[1..n -> EventItems(token_limit)] : n \in 0..MaxData}
    /\ data2 \in UNION {[1..n -> MarketItems(token_limit)] : n \in 0..MaxData}
    /\ llm_pc = "start" /\ llm_path = "" /\ group_size = 0
    /\ llm_calls = <<>> /\ llm_pending = <<>> /\ llm_results = <<>>
    /\ llm_return = <<>>
    /\ ParkTrade /\ ParkMap /\ ParkChunk /\ ParkKeys /\ ParkExec /\ ParkWeather

\* Lines 93-118: fetch, estimate, and either the single call or the cuts.
GetPolymarketLlm ==
    /\ llm_pc = "start"
    /\ LET total_tokens == estimate_tokens(PayloadLen(data1, data2))
           groups == GroupSize(total_tokens, token_limit)
           cut_1 == divide_list(retain_keys(List(data1), useful_keys).v, groups)
           cut_2 == divide_list(data2, groups)
       IN IF WithinLimit(total_tokens, token_limit)
          THEN /\ llm_path' = "single"
               /\ group_size' = 0
               /\ llm_pending' = <<[sub_data1 |-> data1, sub_data2 |-> data2]>>
               /\ llm_pc' = "calling"
          ELSE /\ llm_path' = "chunked"
               /\ group_size' = groups
               /\ IF cut_1.raised # "" \/ cut_2.raised # ""
                  THEN llm_pending' = <<>> /\ llm_pc' = "raised"
                  ELSE /\ llm_pending' = Zip(cut_1.chunks, cut_2.chunks)
                       /\ llm_pc' = "calling"
    /\ UNCHANGED <<token_limit, data1, data2, llm_calls, llm_results, llm_return>>
    /\ UNCHANGED <<tradeVars, mapVars, chunkVars, keyVars, execVars, weatherVars>>

\* process_data_chunk(sub_data1, sub_data2, user_input): one gateway call,
\* which returns a text or raises.
ProcessDataChunk ==
    /\ llm_pc = "calling" /\ llm_pending # <<>>
    /\ llm_calls' = Append(llm_calls, Head(llm_pending))
    /\ \/ /\ \E text \in Replies : llm_results' = Append(llm_results, text)
          /\ llm_pending' = Tail(llm_pending)
          /\ llm_pc' = "calling"
       \/ /\ llm_pc' = "raised"
          /\ UNCHANGED <<llm_results, llm_pending>>
    /\ UNCHANGED <<token_limit, data1, data2, llm_path, group_size, llm_return>>
    /\ UNCHANGED <<tradeVars, mapVars, chunkVars, keyVars, execVars, weatherVars>>

\* The return of either branch.
LlmReturn ==
    /\ llm_pc = "calling" /\ llm_pending = <<>>
    /\ llm_return' = IF llm_path = "single" THEN llm_results[1]
                     ELSE Join(llm_results)
    /\ llm_pc' = "returned"
    /\ UNCHANGED <<token_limit, data1, data2, llm_path, group_size, llm_calls,
                   llm_pending, llm_results>>
    /\ UNCHANGED <<tradeVars, mapVars, chunkVars, keyVars, execVars, weatherVars>>

NextLlm == GetPolymarketLlm \/ ProcessDataChunk \/ LlmReturn

LlmSpec == InitLlm /\ [][NextLlm]_vars

\* C10: when the estimate is at most token_limit, equality included, only the
\* single-call path is taken: the one gateway call gets both collections
\* whole and unstripped and its text is what is returned; the chunked path
\* is taken exactly when the estimate is greater than token_limit.
TokenBoundaryDecision ==
    llm_pc \notin {"start", "parked"}
        => LET total == PayloadLen(data1, data2) \div 4
           IN /\ total <= token_limit
                    => /\ llm_path = "single"
                       /\ Len(llm_calls) <= 1
                       /\ \A k \in 1..Len(llm_calls) :
                              llm_calls[k] = [sub_data1 |-> data1, sub_data2 |-> data2]
                       /\ llm_pc = "returned"
                              => (Len(llm_calls) = 1 /\ llm_return = llm_results[1])
              /\ total > token_limit => llm_path = "chunked"

TokenBoundaryWitness ==
    /\ llm_pc = "returned" /\ llm_path = "single"
    /\ PayloadLen(data1, data2) \div 4 = token_limit
    /\ Len(llm_calls) = 1
    /\ retain_keys(List(data1), useful_keys).v # data1

(***************************************************************************)
(* Claims about the overflow path of get_polymarket_llm.                   *)
(***************************************************************************)
\* The events after the key retention of line 115, the group count of line
\* 109, and the two cuts of lines 116-117.
StrippedEvents == retain_keys(List(data1), useful_keys).v
OverflowGroupSize ==
    GroupSize(estimate_tokens(PayloadLen(data1, data2)), token_limit)
EventCuts == divide_list(StrippedEvents, OverflowGroupSize).chunks
MarketCuts == divide_list(data2, OverflowGroupSize).chunks

\* The call raised before any gateway call was issued: one of the two
\* divide_list calls raised.
ChunkerRaised == llm_pc = "raised" /\ llm_calls = <<>>

\* The events and the markets handed to the gateway calls, in call order.
EventsSent == Concat([k \in 1..Len(llm_calls) |-> llm_calls[k].sub_data1])
MarketsSent == Concat([k \in 1..Len(llm_calls) |-> llm_calls[k].sub_data2])

\* Start of the k-th segment of a text made of segments with one separator
\* between consecutive ones.
RECURSIVE SegmentStart(_, _)
SegmentStart(texts, k) ==
    IF k = 1 THEN 1 ELSE SegmentStart(texts, k - 1) + Len(texts[k - 1]) + 1

\* C14 as stated: in the overflow path, whatever the lengths of the two
\* collections, both are cut into the same number of sublists, and when the
\* call returns every event and every market has been passed to exactly one
\* gateway call (the pairing drops nothing).
LockStepCoverage ==
    (llm_path = "chunked" /\ llm_pc = "returned")
        => /\ Len(EventCuts) = Len(MarketCuts)
           /\ EventsSent = StrippedEvents
           /\ MarketsSent = data2

\* C15 as stated: in the overflow path the payload built for each chunk pair
\* is estimated at no more than token_limit tokens.
ChunksFitBudget ==
    llm_path = "chunked"
        => \A k \in 1..Len(llm_calls) :
               estimate_tokens(PayloadLen(llm_calls[k].sub_data1,
                                          llm_calls[k].sub_data2)) <= token_limit

\* C16: in the overflow path the gateway calls issued so far are the first
\* chunk pairs, one call per pair, in order; when the call returns there is
\* one result per pair and the returned text is made of the results in order,
\* the k-th segment being the k-th result, with exactly one space between
\* consecutive results and nothing else.
SplitCallJoin ==
    (llm_path = "chunked" /\ ~ChunkerRaised /\ llm_pc # "start")
        => LET pairs == Min(Len(EventCuts), Len(MarketCuts))
               n == Len(llm_results)
           IN /\ Len(llm_calls) <= pairs
              /\ \A k \in 1..Len(llm_calls) :
                     /\ llm_calls[k].sub_data1 = EventCuts[k]
                     /\ llm_calls[k].sub_data2 = MarketCuts[k]
              /\ llm_pc = "returned"
                    => /\ Len(llm_calls) = pairs /\ n = pairs /\ n >= 1
                       /\ Len(llm_return) = SegmentStart(llm_results, n + 1) - 2
                       /\ \A k \in 1..n :
                              SubSeq(llm_return, SegmentStart(llm_results, k),
                                     SegmentStart(llm_results, k + 1) - 2)
                                  = llm_results[k]
                       /\ \A k \in 1..(n - 1) :
                              llm_return[SegmentStart(llm_results, k + 1) - 1] = " "

SplitCallJoinWitness ==
    /\ llm_path = "chunked" /\ llm_pc = "returned" /\ Len(llm_calls) = 2
    /\ llm_results = <<<<"r1">>, <<"r2">>>>
    /\ llm_return = <<"r1", " ", "r2">>

\* C17 as stated: when the estimate exceeds token_limit, an empty collection
\* included, the overflow path raises only if a gateway call raises: the two
\* cuts never do.
OverflowAlwaysCompletes == llm_path = "chunked" => ~ChunkerRaised

\* The estimate of the whole payload.
TotalTokens == estimate_tokens(PayloadLen(data1, data2))

\* C22 as stated: in the overflow path the group count is the ceiling of
\* total_tokens / token_limit, exact multiples of token_limit included: the
\* least g with g * token_limit >= total_tokens.
GroupCountIsCeiling ==
    llm_path = "chunked"
        => /\ group_size * token_limit >= TotalTokens
           /\ (group_size - 1) * token_limit < TotalTokens

\* C22 amended: in the overflow path the group count is
\* total_tokens // token_limit + 1, the only g with
\* (g - 1) * token_limit <= total_tokens < g * token_limit.  It is the ceiling
\* of total_tokens / token_limit when total_tokens is not a multiple of
\* token_limit, and one more than the ceiling when it is.
GroupCountIsQuotientPlusOne ==
    llm_path = "chunked"
        => /\ TotalTokens > token_limit /\ group_size >= 2
           /\ (group_size - 1) * token_limit <= TotalTokens
           /\ TotalTokens < group_size * token_limit
           /\ TotalTokens % token_limit # 0
                  => (group_size - 1) * token_limit < TotalTokens
           /\ TotalTokens % token_limit = 0
                  => (group_size - 1) * token_limit = TotalTokens

GroupCountWitness ==
    /\ llm_path = "chunked" /\ TotalTokens = 2 * token_limit /\ group_size = 3

\* Every dict inside a value has allow-listed keys only.
RECURSIVE OnlyKeys(_, _)
OnlyKeys(value, keys) ==
    IF value.t = "dict"
    THEN /\ DOMAIN value.v \subseteq keys
         /\ \A k \in DOMAIN value.v : OnlyKeys(value.v[k], keys)
    ELSE IF value.t = "list"
    THEN \A k \in 1..Len(value.v) : OnlyKeys(value.v[k], keys)
    ELSE TRUE

\* C23 as stated: in the overflow path every record handed to a gateway
\* call, an event or a market, has allow-listed keys only at every depth.
AllowListOnBothCollections ==
    llm_path = "chunked"
        => \A k \in 1..Len(llm_calls) :
               /\ OnlyKeys(List(llm_calls[k].sub_data1), useful_keys)
               /\ OnlyKeys(List(llm_calls[k].sub_data2), useful_keys)

(***************************************************************************)
(* Claims about the chunker.                                               *)
(***************************************************************************)
\* C1: for every non-empty list and every group count >= 1, divide_list
\* returns, and the concatenation of its sublists in order is the list.
ChunkCompleteness ==
    (chunk_pc = "done" /\ original_list # <<>> /\ group_count >= 1)
        => (chunk_raised[1] = "" /\ Concat(chunks) = original_list)

ChunkCompletenessWitness ==
    /\ chunk_pc = "done" /\ Len(original_list) = 3 /\ group_count = 2
    /\ Len(chunks) = 2 /\ Len(chunks[1]) = 2 /\ Len(chunks[2]) = 1

\* C2: for any two lists of equal length and any group count >= 1, both
\* calls return, with the same number of sublists and with sublists of the
\* same length position by position.
ChunkPairing ==
    (chunk_pc = "done" /\ Len(original_list) = Len(other_list)
     /\ group_count >= 1)
        => /\ chunk_raised = <<"", "">>
           /\ Len(chunks) = Len(other_chunks)
           /\ \A k \in 1..Len(chunks) : Len(chunks[k]) = Len(other_chunks[k])

\* C11 as stated: for the empty list and every group count >= 1, divide_list
\* does not raise and returns an empty sequence of sublists.
EmptyInputNoChunks ==
    (chunk_pc = "done" /\ original_list = <<>> /\ group_count >= 1)
        => (chunk_raised[1] = "" /\ chunks = <<>>)

\* C12 as stated: for every non-empty list and every group count <= 1 (1, 0
\* and the negative ones), divide_list returns exactly one sublist, the list
\* itself.
SmallGroupCountSingleChunk ==
    (chunk_pc = "done" /\ original_list # <<>> /\ group_count <= 1)
        => (chunk_raised[1] = "" /\ chunks = <<original_list>>)

\* C13 as stated: for every list and group count n >= 1, divide_list returns
\* exactly n sublists when the list has at least n elements, and at most
\* len(list) sublists when it has fewer.
ChunkCountExact ==
    (chunk_pc = "done" /\ group_count >= 1)
        => /\ chunk_raised[1] = ""
           /\ Len(original_list) >= group_count => Len(chunks) = group_count
           /\ Len(original_list) < group_count
                  => Len(chunks) <= Len(original_list)

\* C13 amended: for every non-empty list and group count n >= 1, divide_list
\* returns ceil(len / ceil(len / n)) sublists: at least one, at most n and at
\* most len(list), and exactly n when n divides len(list); it can return
\* fewer than n even when len(list) >= n.  (The empty list raises.)
ChunkCountAtMost ==
    (chunk_pc = "done" /\ group_count >= 1)
        => LET len == Len(original_list)
           IN /\ len = 0 => chunk_raised[1] = "ValueError"
              /\ len > 0
                    => /\ chunk_raised[1] = ""
                       /\ Len(chunks) >= 1
                       /\ Len(chunks) <= group_count
                       /\ Len(chunks) <= len
                       /\ \E size \in 1..len :
                              /\ size * group_count >= len
                              /\ (size - 1) * group_count < len
                              /\ size * Len(chunks) >= len
                              /\ size * (Len(chunks) - 1) < len
                       /\ len % group_count = 0 => Len(chunks) = group_count

ChunkCountWitness ==
    /\ chunk_pc = "done" /\ Len(original_list) = 4 /\ group_count = 3
    /\ chunk_raised[1] = "" /\ Len(chunks) = 2

(***************************************************************************)
(* Claims about retain_keys.                                               *)
(***************************************************************************)
\* C3 as stated: on {"a": 1, "b": {"a": 2, "c": 3}} with retained keys {"a"}
\* the result is {"a": 1, "b": {"a": 2}}: the allow-listed key under the
\* key "b", which is not allow-listed, is kept.
KeyRetentionKeepsNested ==
    (rk_pc = "returned" /\ rk_data = ExampleValue /\ keys_to_retain = {"a"})
        => rk_result = Dict("a" :> Scalar(1) @@
                            "b" :> Dict("a" :> Scalar(2)))

\* C3 amended: on that input the result is {"a": 1}; in general the keys of
\* a returned dict are the keys of the input dict that are allow-listed, so
\* a key that is not allow-listed goes with everything nested under it.
KeyRetentionDropsSubtree ==
    rk_pc = "returned"
        => /\ (rk_data = ExampleValue /\ keys_to_retain = {"a"})
                  => rk_result = Dict("a" :> Scalar(1))
           /\ rk_data.t = "dict"
                  => /\ rk_result.t = "dict"
                     /\ DOMAIN rk_result.v = (DOMAIN rk_data.v) \cap keys_to_retain

KeyRetentionWitness ==
    /\ rk_pc = "returned" /\ rk_data = ExampleValue /\ keys_to_retain = {"a"}
    /\ rk_result = Dict("a" :> Scalar(1))

\* The result has the input's shape: a dict for a dict, with keys of the
\* input only; a list for a list, of the same length, element by element; a
\* scalar for the same scalar.
RECURSIVE SameShape(_, _)
SameShape(in, out) ==
    IF in.t = "dict"
    THEN /\ out.t = "dict" /\ DOMAIN out.v \subseteq DOMAIN in.v
         /\ \A k \in DOMAIN out.v : SameShape(in.v[k], out.v[k])
    ELSE IF in.t = "list"
    THEN /\ out.t = "list" /\ Len(out.v) = Len(in.v)
         /\ \A k \in 1..Len(in.v) : SameShape(in.v[k], out.v[k])
    ELSE out = in

\* C24: whatever the nested value and the key set, the result has no dict key
\* outside the key set at any depth, every list of the result has the length
\* and the element order of the list it comes from, and every scalar that
\* remains is unchanged.
KeyRetentionPreservesStructure ==
    rk_pc \in {"returned", "again"}
        => /\ OnlyKeys(rk_result, keys_to_retain)
           /\ SameShape(rk_data, rk_result)

KeyRetentionStructureWitness ==
    /\ rk_pc = "returned" /\ keys_to_retain = {"a"}
    /\ rk_data = List(<<Dict("a" :> Scalar(1) @@ "c" :> Scalar(2)), Scalar(3)>>)
    /\ rk_result = List(<<Dict("a" :> Scalar(1)), Scalar(3)>>)

\* C25: retain_keys applied to its own result, with the same key set,
\* returns that result.
KeyRetentionIdempotent == rk_pc = "again" => rk_again = rk_result

KeyRetentionIdempotentWitness ==
    /\ rk_pc = "again" /\ rk_data.t = "list" /\ Len(rk_data.v) = 2
    /\ rk_result # rk_data /\ rk_again = rk_result

(***************************************************************************)
(* GammaMarketClient.get_all_current_markets against an endpoint that      *)
(* serves a fixed catalogue and honours `limit` and `offset`.              *)
(***************************************************************************)
\* get_markets(querystring_params=params): the page at `offset`.
get_markets(served, page_limit, page_offset) ==
    PySlice(served, page_offset, page_offset + page_limit)

\* Variant: only an empty page ends the loop.
LastPageEmpty(market_batch, page_limit) == Len(market_batch) = 0

\* `if len(market_batch) < limit: break`
LastPage(market_batch, page_limit) == Len(market_batch) < page_limit

InitPage ==
    /\ \E n \in 0..MaxMarkets : pg_catalogue = [k \in 1..n |-> k]
    /\ pg_limit \in 1..MaxLimit
    /\ offset = 0 /\ all_markets = <<>> /\ pg_requests = <<>>
    /\ pg_pc = "loop"
    /\ ParkFunnel /\ ParkForecast /\ ParkServer /\ ParkIndex

\* One iteration of the `while True` loop; the last one returns.
FetchPage ==
    /\ pg_pc = "loop"
    /\ LET market_batch == get_markets(pg_catalogue, pg_limit, offset)
       IN /\ pg_requests' = Append(pg_requests, offset)
          /\ all_markets' = all_markets \o market_batch
          /\ IF LastPage(market_batch, pg_limit)
             THEN pg_pc' = "returned" /\ offset' = offset
             ELSE pg_pc' = "loop" /\ offset' = offset + pg_limit
    /\ UNCHANGED <<pg_catalogue, pg_limit>>
    /\ UNCHANGED <<funnelVars, forecastVars, serverVars, indexVars>>

NextPage == FetchPage

PageSpec == InitPage /\ [][NextPage]_vars

\* C26: against a fixed catalogue of N markets and a limit >= 1 the requests
\* carry the offsets 0, limit, 2 * limit, ...; there are never more than
\* N \div limit + 1 of them and the loop goes on until it returns; it returns
\* after exactly N \div limit + 1 requests, an empty last page included, with
\* the N markets in catalogue order, none twice and none missing.
PaginationComplete ==
    pg_pc # "parked"
        => LET n == Len(pg_catalogue)
           IN /\ \A k \in 1..Len(pg_requests) :
                     pg_requests[k] = (k - 1) * pg_limit
              /\ Len(pg_requests) <= (n \div pg_limit) + 1
              /\ pg_pc = "loop" => ENABLED NextPage
              /\ pg_pc = "returned"
                    => /\ Len(pg_requests) = (n \div pg_limit) + 1
                       /\ all_markets = pg_catalogue

PaginationWitness ==
    /\ pg_pc = "returned" /\ Len(pg_catalogue) = 4 /\ pg_limit = 2
    /\ pg_requests = <<0, 2, 4>> /\ all_markets = <<1, 2, 3, 4>>

(***************************************************************************)
(* WeatherPredictor.get_best_forecast and WeatherDataClient.               *)
(* get_all_forecasts.  A source answers with a reading (1..MaxReading) or  *)
(* fails (0).                                                              *)
(***************************************************************************)
Readings == 1..MaxReading
SourceAnswers == 0..MaxReading
Questions == {"", "will it rain"}

\* Variant: a failure of the first source ends the call with nothing.
get_all_forecasts_abort(ow_forecast, wa_forecast) ==
    IF ow_forecast = 0
    THEN [raised |-> "", queried |-> <<"openweather">>, forecasts |-> <<>>]
    ELSE [raised |-> "", queried |-> <<"openweather", "weatherapi">>,
          forecasts |->
              <<[source |-> "openweather", data |-> ow_forecast]>>
                  \o (IF wa_forecast # 0
                      THEN <<[source |-> "weatherapi", data |-> wa_forecast]>>
                      ELSE <<>>)]

\* get_all_forecasts(location): each source is queried inside its own
\* try/except, which logs a failure and goes on.
get_all_forecasts(ow_forecast, wa_forecast) ==
    [raised |-> "",
     queried |-> <<"openweather", "weatherapi">>,
     forecasts |->
         (IF ow_forecast # 0
          THEN <<[source |-> "openweather", data |-> ow_forecast]>> ELSE <<>>)
             \o (IF wa_forecast # 0
                 THEN <<[source |-> "weatherapi", data |-> wa_forecast]>>
                 ELSE <<>>)]

\* Variant: the except clause returns an error value.
AfterFailureReturn(step) == "RETURNED"

\* The except clause: `return self.get_best_forecast(location, question)`.
AfterFailure(step) == "FETCH"

InitForecast ==
    /\ question \in Questions
    /\ fc_pc = "FETCH" /\ fc_attempts = 1 /\ fc_failed = 0
    /\ fc_raised_at = {} /\ fc_sources = <<>> /\ fc_queried = <<>>
    /\ all_forecasts = <<>> /\ current_weather = 0 /\ forecast = <<>>
    /\ ParkFunnel /\ ParkPage /\ ParkServer /\ ParkIndex

\* A statement of the try block raised: log, then call get_best_forecast
\* again, in a new frame.
FailForecast(step) ==
    /\ fc_pc' = AfterFailure(step)
    /\ fc_attempts' = Min(fc_attempts + 1, MaxTries)
    /\ fc_failed' = Min(fc_failed + 1, MaxTries - 1)
    /\ fc_raised_at' = fc_raised_at \cup {step}
    /\ fc_sources' = <<>> /\ fc_queried' = <<>>
    /\ all_forecasts' = <<>> /\ current_weather' = 0
    /\ UNCHANGED <<question, forecast>>
    /\ UNCHANGED <<funnelVars, pageVars, serverVars, indexVars>>

\* all_forecasts = self.weather_client.get_all_forecasts(location)
GetAllForecasts ==
    /\ fc_pc = "FETCH"
    /\ \E ow_forecast, wa_forecast \in SourceAnswers :
        LET r == get_all_forecasts(ow_forecast, wa_forecast)
        IN IF r.raised # "" THEN FailForecast("FETCH")
           ELSE /\ all_forecasts' = r.forecasts
                /\ fc_queried' = r.queried
                /\ fc_sources' = <<ow_forecast, wa_forecast>>
                /\ fc_pc' = "CURRENT"
                /\ UNCHANGED <<question, fc_attempts, fc_failed, fc_raised_at,
                               current_weather, forecast>>
                /\ UNCHANGED <<funnelVars, pageVars, serverVars, indexVars>>

\* current_weather = self.weather_client.get_current_weather(location): the
\* primary source answers or raises.
GetCurrentWeather ==
    /\ fc_pc = "CURRENT"
    /\ \/ /\ \E reading \in Readings : current_weather' = reading
          /\ fc_pc' = "GENERATE"
          /\ UNCHANGED <<question, fc_attempts, fc_failed, fc_raised_at,
                         fc_sources, fc_queried, all_forecasts, forecast>>
          /\ UNCHANGED <<funnelVars, pageVars, serverVars, indexVars>>
       \/ FailForecast("CURRENT")

\* The generation call of either branch, which returns a text or raises; the
\* text is known by the attempt and the data it was generated from (the
\* branch without a question passes no weather data).
GenerateForecast ==
    /\ fc_pc = "GENERATE"
    /\ \/ /\ forecast' =
                 [attempt |-> fc_attempts,
                  data |-> IF question # ""
                           THEN <<current_weather, all_forecasts>> ELSE <<>>]
          /\ fc_pc' = "RETURNED"
          /\ UNCHANGED <<question, fc_attempts, fc_failed, fc_raised_at,
                         fc_sources, fc_queried, all_forecasts,
                         current_weather>>
          /\ UNCHANGED <<funnelVars, pageVars, serverVars, indexVars>>
       \/ FailForecast("GENERATE")

NextForecast == GetAllForecasts \/ GetCurrentWeather \/ GenerateForecast

ForecastSpec == InitForecast /\ [][NextForecast]_vars

SourceFailuresAbsorbed ==
    /\ "FETCH" \notin fc_raised_at
    /\ fc_pc \in {"CURRENT", "GENERATE", "RETURNED"}
          => LET ow == [source |-> "openweather", data |-> fc_sources[1]]
                 wa == [source |-> "weatherapi", data |-> fc_sources[2]]
                 ow_ok == fc_sources[1] # 0
                 wa_ok == fc_sources[2] # 0
             IN /\ fc_queried = <<"openweather", "weatherapi">>
                /\ (ow_ok /\ wa_ok) => all_forecasts = <<ow, wa>>
                /\ (ow_ok /\ ~wa_ok) => all_forecasts = <<ow>>
                /\ (~ow_ok /\ wa_ok) => all_forecasts = <<wa>>
                /\ (~ow_ok /\ ~wa_ok) => all_forecasts = <<>>

SourceFailuresWitness ==
    /\ fc_pc = "CURRENT" /\ fc_sources = <<0, 2>>
    /\ fc_queried = <<"openweather", "weatherapi">>
    /\ all_forecasts = <<[source |-> "weatherapi", data |-> 2]>>

(***************************************************************************)
(* server.py: get_weather_predictor / get_executor called by the endpoint  *)
(* handlers.  The handlers are plain `def` functions, which the framework  *)
(* runs on worker threads, so the statements of two requests interleave.   *)
(***************************************************************************)
Requests == 1..MaxRequests
Kinds == {"predictor", "executor"}

\* The status of the HTTPException the getter raises when construction
\* fails.
UnavailableStatus == 503

\* The handler's `except Exception as e: raise HTTPException(status_code=500,
\* ...)`: the getter is called inside the handler's try block and
\* HTTPException is an Exception.
HandlerExcept(raised_status) == 500

InitServer ==
    /\ sv_singleton = [k \in Kinds |-> 0]
    /\ sv_constructed = [k \in Kinds |-> 0]
    /\ sv_kind = [r \in Requests |-> ""]
    /\ sv_pc = [r \in Requests |-> "idle"]
    /\ sv_local = [r \in Requests |-> 0]
    /\ sv_init_failed = [r \in Requests |-> FALSE]
    /\ sv_status = [r \in Requests |-> 0]
    /\ ParkFunnel /\ ParkPage /\ ParkForecast /\ ParkIndex

\* A request arrives at an /api endpoint; its handler calls the getter.
Arrive(r) ==
    /\ sv_pc[r] = "idle"
    /\ \E k \in Kinds : sv_kind' = [sv_kind EXCEPT ![r] = k]
    /\ sv_pc' = [sv_pc EXCEPT ![r] = "check"]
    /\ UNCHANGED <<sv_singleton, sv_constructed, sv_local, sv_init_failed,
                   sv_status>>
    /\ UNCHANGED <<funnelVars, pageVars, forecastVars, indexVars>>

\* `if _weather_predictor is None:`
CheckNone(r) ==
    /\ sv_pc[r] = "check"
    /\ sv_pc' = [sv_pc EXCEPT ![r] =
                    IF sv_singleton[sv_kind[r]] = 0 THEN "construct" ELSE "return"]
    /\ UNCHANGED <<sv_singleton, sv_constructed, sv_kind, sv_local,
                   sv_init_failed, sv_status>>
    /\ UNCHANGED <<funnelVars, pageVars, forecastVars, indexVars>>

\* `WeatherPredictor()` returns a new instance, or raises: the getter raises
\* HTTPException(503), which the handler's except clause turns into the
\* response.
Construct(r) ==
    /\ sv_pc[r] = "construct"
    /\ \/ /\ sv_constructed' =
                 [sv_constructed EXCEPT ![sv_kind[r]] = @ + 1]
          /\ sv_local' = [sv_local EXCEPT ![r] = sv_constructed[sv_kind[r]] + 1]
          /\ sv_pc' = [sv_pc EXCEPT ![r] = "assign"]
          /\ UNCHANGED <<sv_init_failed, sv_status>>
       \/ /\ sv_init_failed' = [sv_init_failed EXCEPT ![r] = TRUE]
          /\ sv_status' = [sv_status EXCEPT ![r] = HandlerExcept(UnavailableStatus)]
          /\ sv_pc' = [sv_pc EXCEPT ![r] = "done"]
          /\ UNCHANGED <<sv_constructed, sv_local>>
    /\ UNCHANGED <<sv_singleton, sv_kind>>
    /\ UNCHANGED <<funnelVars, pageVars, forecastVars, indexVars>>

\* `_weather_predictor = <the new instance>`
Assign(r) ==
    /\ sv_pc[r] = "assign"
    /\ sv_singleton' = [sv_singleton EXCEPT ![sv_kind[r]] = sv_local[r]]
    /\ sv_pc' = [sv_pc EXCEPT ![r] = "return"]
    /\ UNCHANGED <<sv_constructed, sv_kind, sv_local, sv_init_failed, sv_status>>
    /\ UNCHANGED <<funnelVars, pageVars, forecastVars, indexVars>>

\* `return _weather_predictor`: the handler gets what the global holds now.
ReturnSingleton(r) ==
    /\ sv_pc[r] = "return"
    /\ sv_local' = [sv_local EXCEPT ![r] = sv_singleton[sv_kind[r]]]
    /\ sv_pc' = [sv_pc EXCEPT ![r] = "use"]
    /\ UNCHANGED <<sv_singleton, sv_constructed, sv_kind, sv_init_failed,
                   sv_status>>
    /\ UNCHANGED <<funnelVars, pageVars, forecastVars, indexVars>>

\* The handler calls a method of the instance and answers 200, or the call
\* raises and the except clause answers 500.
UseInstance(r) ==
    /\ sv_pc[r] = "use"
    /\ \E status \in {200, HandlerExcept(0)} :
           sv_status' = [sv_status EXCEPT ![r] = status]
    /\ sv_pc' = [sv_pc EXCEPT ![r] = "done"]
    /\ UNCHANGED <<sv_singleton, sv_constructed, sv_kind, sv_local,
                   sv_init_failed>>
    /\ UNCHANGED <<funnelVars, pageVars, forecastVars, indexVars>>

NextServer ==
    \E r \in Requests :
        \/ Arrive(r)
        \/ CheckNone(r)
        \/ Construct(r)
        \/ Assign(r)
        \/ ReturnSingleton(r)
        \/ UseInstance(r)

ServerSpec == InitServer /\ [][NextServer]_vars

\* C28 as stated: whatever the interleaving of the requests, at most one
\* instance of each kind is ever constructed and all requests of a kind use
\* the same instance.
SingletonConstructedOnce ==
    sv_pc # <<>>
        => /\ \A k \in Kinds : sv_constructed[k] <= 1
           /\ \A r1, r2 \in Requests :
                  (sv_kind[r1] = sv_kind[r2]
                   /\ sv_pc[r1] \in {"use", "done"} /\ sv_pc[r2] \in {"use", "done"}
                   /\ sv_local[r1] # 0 /\ sv_local[r2] # 0)
                      => sv_local[r1] = sv_local[r2]

\* C29 as stated: a request during which the lazy construction failed is
\* answered with status 503, and the failure leaves the singleton unset.
InitFailureIs503 ==
    sv_pc # <<>>
        => \A r \in Requests :
               sv_init_failed[r]
                   => /\ sv_status[r] = UnavailableStatus
                      /\ sv_local[r] = 0

(***************************************************************************)
(* weather_rag.py: WeatherRAG.weather_forecasts, and trade.py:             *)
(* Trader.clear_local_dbs.  A forecast is identified by its description    *)
(* (a number); the embedding distance of a description to a prompt is      *)
(* their difference.  The prompts lie outside the range of the             *)
(* descriptions, so two different descriptions are never equally far from  *)
(* the prompt (the index does not define the order of such a tie).         *)
(***************************************************************************)
WeatherDir == "local_db_weather_forecasts"
ClearedDirs == {"local_db_events", "local_db_markets"}

\* similarity_search_with_score is called without k: the library's default.
TopK == 4

Descriptions == 1..MaxForecasts
ForecastLists ==
    UNION {[1..n -> Descriptions] : n \in 1..MaxForecasts}
Prompts == {0, MaxForecasts + 1}

Distance(doc, query) == IF doc >= query THEN doc - query ELSE query - doc

\* The position, among `positions` of `collection`, of the document nearest
\* to the query (the earliest inserted of equal documents).
Nearest(collection, positions, query) ==
    CHOOSE p \in positions :
        \A q \in positions :
            \/ Distance(collection[p], query) < Distance(collection[q], query)
            \/ /\ Distance(collection[p], query) = Distance(collection[q], query)
               /\ p <= q

RECURSIVE NearestFirst(_, _, _, _)
NearestFirst(collection, positions, query, k) ==
    IF k = 0 \/ positions = {}
    THEN <<>>
    ELSE LET p == Nearest(collection, positions, query)
         IN  <<[doc |-> collection[p],
                score |-> Distance(collection[p], query)]>>
             \o NearestFirst(collection, positions \ {p}, query, k - 1)

\* local_db.similarity_search_with_score(query=prompt): the TopK documents
\* of the collection nearest to the prompt, each with its distance.
similarity_search_with_score(collection, query) ==
    NearestFirst(collection, DOMAIN collection, query, TopK)

\* Chroma.from_documents(loaded_docs, embedding_function,
\* persist_directory=...): opens the collection persisted in the directory
\* and adds the documents to it under fresh ids.
from_documents(persisted, loaded_docs) == persisted \o loaded_docs

\* The event and market directories of an earlier trading run exist; the
\* forecast directory does not yet.
InitIndex ==
    /\ ix_dirs = ClearedDirs
    /\ ix_file = <<>>
    /\ ix_collection = <<>>
    /\ ix_forecasts \in ForecastLists
    /\ ix_prompt \in Prompts
    /\ ix_results = <<>>
    /\ ParkFunnel /\ ParkPage /\ ParkForecast /\ ParkServer

\* weather_forecasts(forecasts, prompt): the whole method.
WeatherForecasts ==
    /\ Len(ix_results) < MaxCalls
    /\ ix_dirs' = ix_dirs \cup {WeatherDir}
    /\ ix_file' = ix_forecasts
    /\ ix_collection' = from_documents(ix_collection, ix_forecasts)
    /\ ix_results' =
           Append(ix_results,
                  similarity_search_with_score(ix_collection', ix_prompt))
    /\ UNCHANGED <<ix_forecasts, ix_prompt>>
    /\ UNCHANGED <<funnelVars, pageVars, forecastVars, serverVars>>

\* clear_local_dbs(): removes the event and market directories that exist;
\* a removal that raises OSError is logged and leaves the directory.
ClearLocalDbs ==
    /\ \E removed \in SUBSET (ix_dirs \cap ClearedDirs) :
           ix_dirs' = ix_dirs \ removed
    /\ UNCHANGED <<ix_file, ix_collection, ix_forecasts, ix_prompt, ix_results>>
    /\ UNCHANGED <<funnelVars, pageVars, forecastVars, serverVars>>

NextIndex ==
    \/ WeatherForecasts
    \/ ClearLocalDbs

IndexSpec == InitIndex /\ [][NextIndex]_vars

\* C21 as stated: every later call of weather_forecasts with the same
\* forecasts and prompt returns the same documents as the first call.
IndexingIdempotent ==
    \A i \in 1..Len(ix_results) : ix_results[i] = ix_results[1]

====
